---- MODULE Spec2Model ----
(***************************************************************************)
(* Model of agent-ui/server.js: an Express application that serves the UI  *)
(* and proxies /api/chat and /api/agents to the agents service via axios.  *)
(*                                                                         *)
(* Each HTTP request is one slot r in 1..MaxReqs.  A request arrives, runs *)
(* the middleware chain (express.json, express.static) and its route       *)
(* handler up to the first await; the continuation of the handler runs     *)
(* when the axios promise settles.  JSON texts are sequences of            *)
(* <<key, value>> members, JavaScript objects are functions on KeySet      *)
(* (a missing property reads as Undefined).                                *)
(***************************************************************************)
EXTENDS Integers, Sequences, FiniteSets, TLC

\* Number of HTTP requests the server receives in a run.
MaxReqs == 2

Reqs == 1..MaxReqs

VARIABLES
    env,            \* process.env.AGENTS_URL
    AGENTS_URL,     \* the module constant resolved at startup
    expressMajor,   \* major version of the installed express package
    pc,             \* per request: "idle", "await" or "done"
    request,        \* per request: what the caller sent
    reqBody,        \* per request: req.body as left by express.json()
    calls,          \* per request: the axios calls issued, in order
    outcome,        \* per request: what became of the upstream call
    res,            \* per request: the Express response object
    errorLog,       \* number of console.error lines written
    serverUp        \* the Node process is alive and listening

vars == <<env, AGENTS_URL, expressMajor, pc, request, reqBody, calls, outcome,
          res, errorLog, serverUp>>

----------------------------------------------------------------------------
\* JSON (JSON.parse / JSON.stringify as used by express.json, axios, res.json)

Undefined == "undefined"

KeyOrder == <<"agents", "cid", "error", "tools">>

KeySet == {KeyOrder[i] : i \in DOMAIN KeyOrder}

EmptyObject == [k \in KeySet |-> Undefined]

\* A member with an empty key or an empty value is a syntax error.
JSONvalid(t) == \A i \in DOMAIN t : t[i][1] \in KeySet /\ t[i][2] # ""

\* JSON.parse: the last member of a repeated key wins.
JSONparse(t) ==
    [k \in KeySet |->
        IF \E i \in DOMAIN t : t[i][1] = k
        THEN LET last == CHOOSE i \in DOMAIN t :
                            /\ t[i][1] = k
                            /\ \A j \in DOMAIN t : t[j][1] = k => j <= i
             IN  t[last][2]
        ELSE Undefined]

RECURSIVE Members(_, _)
Members(o, i) ==
    IF i > Len(KeyOrder) THEN <<>>
    ELSE (IF o[KeyOrder[i]] # Undefined
          THEN << <<KeyOrder[i], o[KeyOrder[i]]>> >>
          ELSE <<>>) \o Members(o, i + 1)

\* A buggy serializer that loses the "tools" member.
JSONstringifyDropsTools(o) == Members([o EXCEPT !["tools"] = Undefined], 1)

\* JSON.stringify: properties whose value is undefined are skipped.
JSONstringify(o) == Members(o, 1)

----------------------------------------------------------------------------
\* Startup (server.js lines 7-8)

DefaultAgentsUrl == "http://localhost:7777"

EnvUnset == "unset"

\* process.env.AGENTS_URL || 'http://localhost:7777'
ResolveAgentsUrl(e) ==
    IF e = EnvUnset \/ e = "" THEN DefaultAgentsUrl ELSE e

----------------------------------------------------------------------------
\* The Express response object

NewRes == [statusCode |-> 200, sent |-> <<>>, jsonCalls |-> 0]

HeadersSent(rs) == Len(rs.sent) > 0

\* res.status(code)
ResStatus(rs, code) == [rs EXCEPT !.statusCode = code]

JsonResponse(code, data) ==
    [status |-> code, type |-> "application/json",
     text |-> JSONstringify(data), file |-> ""]

FileResponse(code, path) ==
    [status |-> code, type |-> "text/html", text |-> <<>>, file |-> path]

\* res.json(data): throws ERR_HTTP_HEADERS_SENT once a response was written.
ResJson(rs, data) ==
    IF HeadersSent(rs)
    THEN [res |-> [rs EXCEPT !.jsonCalls = @ + 1], threw |-> TRUE]
    ELSE [res |-> [rs EXCEPT !.jsonCalls = @ + 1,
                             !.sent = <<JsonResponse(rs.statusCode, data)>>],
          threw |-> FALSE]

\* res.sendFile(path): a missing file ends in the default handler's 404.
ResSendFile(rs, path, exists) ==
    [rs EXCEPT !.sent = IF exists THEN <<FileResponse(200, path)>>
                        ELSE <<FileResponse(404, "")>>]

\* No middleware and no route answered: Express's final handler, 404.
NotFound(rs) == [rs EXCEPT !.sent = <<FileResponse(404, "")>>]

\* The default error handler after body-parser's SyntaxError: 400.
BadRequest(rs) == [rs EXCEPT !.sent = <<FileResponse(400, "")>>]

----------------------------------------------------------------------------
\* Middleware (server.js lines 10-12)

JsonType == "application/json"

\* req.body when express.json() skips a request: {} in Express 4,
\* undefined in Express 5.
UnparsedBody(major) ==
    [defined |-> (major = 4), val |-> EmptyObject]

\* express.json(): parses bodies whose Content-Type is application/json and
\* fails the request on a syntax error; other requests pass unparsed.
ExpressJson(major, ctype, text) ==
    IF ctype = JsonType
    THEN IF JSONvalid(text)
         THEN [ok |-> TRUE, body |-> [defined |-> TRUE, val |-> JSONparse(text)]]
         ELSE [ok |-> FALSE, body |-> UnparsedBody(major)]
    ELSE [ok |-> TRUE, body |-> UnparsedBody(major)]

\* A static middleware configured with index: false.
StaticServesNoIndex(path, publicHas) == path # "/" /\ publicHas

\* express.static('public'): answers when public/ holds the file for the
\* path; for a directory path that file is index.html.  Otherwise it calls
\* next().
StaticServes(path, publicHas) == publicHas

StaticFile(path) == IF path = "/" THEN "public/index.html" ELSE "public/asset"

RootFile == "src/index.html"

\* GET <path> through express.static and then app.get('/') (lines 12-17).
ServeGet(rs, path, publicHas, srcIndex) ==
    IF StaticServes(path, publicHas)
    THEN ResSendFile(rs, StaticFile(path), TRUE)
    ELSE IF path = "/"
         THEN ResSendFile(rs, RootFile, srcIndex)
         ELSE NotFound(rs)

----------------------------------------------------------------------------
\* axios

\* axios.post(url, data): one HTTP request; an object is sent as JSON text,
\* undefined as no body.
AxiosPost(url, data) ==
    [method |-> "POST", url |-> url, hasBody |-> data.defined,
     text |-> IF data.defined THEN JSONstringify(data.val) ELSE <<>>]

\* axios.get(url)
AxiosGet(url) ==
    [method |-> "GET", url |-> url, hasBody |-> FALSE, text |-> <<>>]

NoOutcome == [kind |-> "none", status |-> 0, text |-> <<>>]

Pending == [kind |-> "pending", status |-> 0, text |-> <<>>]

Silent == [kind |-> "silent", status |-> 0, text |-> <<>>]

\* axios's default validateStatus
ValidateStatus(status) == status >= 200 /\ status < 300

\* The promise is fulfilled by a reply with an accepted status and rejected
\* by any other reply and by a transport error.
AxiosFulfilled(o) == o.kind = "reply" /\ ValidateStatus(o.status)

AxiosRejected(o) ==
    o.kind \in {"ECONNREFUSED", "ETIMEDOUT"}
    \/ (o.kind = "reply" /\ ~ValidateStatus(o.status))

\* response.data: the reply's JSON text, parsed
AxiosData(o) == JSONparse(o.text)

\* error.message
AxiosMessage(o) ==
    CASE o.kind = "ECONNREFUSED" -> "connect ECONNREFUSED"
      [] o.kind = "ETIMEDOUT"    -> "connect ETIMEDOUT"
      [] OTHER                   -> "Request failed with status code 503"

----------------------------------------------------------------------------
\* The upstream agents service (environment)

OtherReplyText == << <<"cid", "c9">>, <<"tools", "none">> >>

AgentsReplyText == << <<"agents", "github-analyst,research-assistant">> >>

ErrorPayloadText == << <<"error", "Traceback: agents service internals">> >>

SuccessStatuses == {200, 201}

Reply(status, text) == [kind |-> "reply", status |-> status, text |-> text]

TransportErrors ==
    {[kind |-> k, status |-> 0, text |-> <<>>] : k \in {"ECONNREFUSED", "ETIMEDOUT"}}

\* What the upstream may do with a POST /chat: echo the body it received or
\* answer something else, with a 2xx status; answer 503 with a payload;
\* refuse the connection; let the connection time out.
ChatOutcomes(call) ==
    {Reply(s, t) : s \in SuccessStatuses, t \in {call.text, OtherReplyText}}
    \cup {Reply(503, ErrorPayloadText)} \cup TransportErrors

AgentsOutcomes ==
    {Reply(s, AgentsReplyText) : s \in SuccessStatuses}
    \cup {Reply(503, ErrorPayloadText)} \cup TransportErrors

----------------------------------------------------------------------------
\* The proxy handlers (server.js lines 20-38)

ChatError == "Failed to communicate with agents service"

AgentsError == "Failed to get agents list"

ErrorObject(label) == [EmptyObject EXCEPT !["error"] = label]

ChatUrl == <<AGENTS_URL, "/chat">>

AgentsUrl == <<AGENTS_URL, "/agents">>

\* The try block after the await: a rejected promise throws at the await,
\* a fulfilled one reaches res.json(response.data).
TryBlock(rs, o) ==
    IF AxiosFulfilled(o)
    THEN ResJson(rs, AxiosData(o))
    ELSE [res |-> rs, threw |-> TRUE]

\* A handler whose error path runs after every try block.
CatchAlways(t) == TRUE

\* The catch block runs exactly when the try block threw.
CatchRuns(t) == t.threw

\* A catch block that answers with the error's own message.
CatchBlockLeaks(rs, label, call, error) ==
    LET j == ResJson(ResStatus(rs, 500), ErrorObject(AxiosMessage(error)))
    IN  [res |-> j.res, threw |-> j.threw, logged |-> 1, retries |-> <<>>]

\* A catch block that repeats the upstream call.
CatchBlockRetries(rs, label, call, error) ==
    LET j == ResJson(ResStatus(rs, 500), ErrorObject(label))
    IN  [res |-> j.res, threw |-> j.threw, logged |-> 1, retries |-> <<call>>]

\* A catch block that rethrows after answering.
CatchBlockRethrows(rs, label, call, error) ==
    LET j == ResJson(ResStatus(rs, 500), ErrorObject(label))
    IN  [res |-> j.res, threw |-> TRUE, logged |-> 1, retries |-> <<>>]

\* catch (error): console.error(..., error.message);
\* res.status(500).json({ error: label }).  No further upstream call.
CatchBlock(rs, label, call, error) ==
    LET j == ResJson(ResStatus(rs, 500), ErrorObject(label))
    IN  [res |-> j.res, threw |-> j.threw, logged |-> 1, retries |-> <<>>]

\* The continuation of a proxy handler once its axios promise settled with o.
Continuation(rs, label, call, o) ==
    LET t == TryBlock(rs, o)
    IN  IF CatchRuns(t)
        THEN CatchBlock(t.res, label, call, o)
        ELSE [res |-> t.res, threw |-> FALSE, logged |-> 0, retries |-> <<>>]

\* An exception that escapes an async handler is an unhandled rejection,
\* which ends the process under Express 4; Express 5 passes it to next().
Crashes(major, h) == h.threw /\ major = 4

\* A handler that answers on the connection of the request that arrived last.
ResponderShared(r) ==
    CHOOSE q \in Reqs : pc[q] # "idle" /\ \A p \in Reqs : pc[p] # "idle" => p <= q

\* The res a handler answers on is the one bound in its own closure.
Responder(r) == r

----------------------------------------------------------------------------
\* Requests the callers send

NoRequest ==
    [method |-> "", path |-> "", ctype |-> "", text |-> <<>>,
     publicHas |-> FALSE, srcIndex |-> FALSE, afterError |-> FALSE]

ChatPosts ==
    { [ctype |-> JsonType, text |-> << <<"cid", "c1">> >>],
      [ctype |-> JsonType, text |-> << <<"cid", "c2">>, <<"tools", "search">> >>],
      [ctype |-> "text/plain", text |-> << <<"cid", "c1">> >>],
      [ctype |-> JsonType, text |-> << <<"cid", "">> >>] }

AssetPath == "/app.js"

\* Requests are numbered in the order the server accepts them.
Accepts(r) ==
    /\ serverUp
    /\ pc[r] = "idle"
    /\ \A q \in Reqs : q < r => pc[q] # "idle"

Arrived(r, method, path, ctype, text, publicHas, srcIndex) ==
    request' = [request EXCEPT ![r] =
        [method |-> method, path |-> path, ctype |-> ctype, text |-> text,
         publicHas |-> publicHas, srcIndex |-> srcIndex,
         afterError |-> (errorLog > 0)]]

----------------------------------------------------------------------------
\* Actions

Init ==
    /\ env \in {EnvUnset, "", "http://agents:7777"}
    /\ AGENTS_URL = ResolveAgentsUrl(env)
    /\ expressMajor \in {4, 5}
    /\ pc = [r \in Reqs |-> "idle"]
    /\ request = [r \in Reqs |-> NoRequest]
    /\ reqBody = [r \in Reqs |-> UnparsedBody(expressMajor)]
    /\ calls = [r \in Reqs |-> <<>>]
    /\ outcome = [r \in Reqs |-> NoOutcome]
    /\ res = [r \in Reqs |-> NewRes]
    /\ errorLog = 0
    /\ serverUp = TRUE

\* POST /api/chat whose body express.json() accepts or skips: the handler
\* runs up to await axios.post(`${AGENTS_URL}/chat`, req.body).
PostChat(r) ==
    /\ Accepts(r)
    /\ \E p \in ChatPosts :
        LET mw == ExpressJson(expressMajor, p.ctype, p.text)
        IN  /\ mw.ok
            /\ Arrived(r, "POST", "/api/chat", p.ctype, p.text, FALSE, FALSE)
            /\ reqBody' = [reqBody EXCEPT ![r] = mw.body]
            /\ calls' = [calls EXCEPT ![r] = <<AxiosPost(ChatUrl, mw.body)>>]
    /\ outcome' = [outcome EXCEPT ![r] = Pending]
    /\ pc' = [pc EXCEPT ![r] = "await"]
    /\ UNCHANGED <<env, AGENTS_URL, expressMajor, res, errorLog, serverUp>>

\* POST /api/chat with malformed JSON: express.json() fails the request
\* and the route handler never runs.
PostChatMalformed(r) ==
    /\ Accepts(r)
    /\ \E p \in ChatPosts :
        /\ ~ExpressJson(expressMajor, p.ctype, p.text).ok
        /\ Arrived(r, "POST", "/api/chat", p.ctype, p.text, FALSE, FALSE)
    /\ res' = [res EXCEPT ![r] = BadRequest(res[r])]
    /\ pc' = [pc EXCEPT ![r] = "done"]
    /\ UNCHANGED <<env, AGENTS_URL, expressMajor, reqBody, calls, outcome,
                   errorLog, serverUp>>

\* GET /api/agents: the handler runs up to await axios.get(...).
GetAgents(r) ==
    /\ Accepts(r)
    /\ Arrived(r, "GET", "/api/agents", "", <<>>, FALSE, FALSE)
    /\ calls' = [calls EXCEPT ![r] = <<AxiosGet(AgentsUrl)>>]
    /\ outcome' = [outcome EXCEPT ![r] = Pending]
    /\ pc' = [pc EXCEPT ![r] = "await"]
    /\ UNCHANGED <<env, AGENTS_URL, expressMajor, reqBody, res, errorLog, serverUp>>

\* GET /: express.static, then the root route's res.sendFile.
GetRoot(r) ==
    /\ Accepts(r)
    /\ \E publicHas \in BOOLEAN, srcIndex \in BOOLEAN :
        /\ Arrived(r, "GET", "/", "", <<>>, publicHas, srcIndex)
        /\ res' = [res EXCEPT ![r] = ServeGet(res[r], "/", publicHas, srcIndex)]
    /\ pc' = [pc EXCEPT ![r] = "done"]
    /\ UNCHANGED <<env, AGENTS_URL, expressMajor, reqBody, calls, outcome,
                   errorLog, serverUp>>

\* GET of a static asset path: express.static, then no route.
GetAsset(r) ==
    /\ Accepts(r)
    /\ \E publicHas \in BOOLEAN :
        /\ Arrived(r, "GET", AssetPath, "", <<>>, publicHas, FALSE)
        /\ res' = [res EXCEPT ![r] = ServeGet(res[r], AssetPath, publicHas, FALSE)]
    /\ pc' = [pc EXCEPT ![r] = "done"]
    /\ UNCHANGED <<env, AGENTS_URL, expressMajor, reqBody, calls, outcome,
                   errorLog, serverUp>>

\* The upstream accepts the connection and never answers.  axios is called
\* without a timeout option, so nothing settles the promise.
UpstreamSilent(r) ==
    /\ pc[r] = "await"
    /\ outcome[r] = Pending
    /\ outcome' = [outcome EXCEPT ![r] = Silent]
    /\ UNCHANGED <<env, AGENTS_URL, expressMajor, pc, request, reqBody, calls,
                   res, errorLog, serverUp>>

\* The axios promise of request r settles with o and the handler's
\* continuation runs to its end.
Settles(r, label, o) ==
    /\ serverUp
    /\ pc[r] = "await"
    /\ outcome[r] = Pending
    /\ LET w == Responder(r)
           h == Continuation(res[w], label, calls[r][1], o)
       IN  /\ res' = [res EXCEPT ![w] = h.res]
           /\ calls' = [calls EXCEPT ![r] = @ \o h.retries]
           /\ errorLog' = errorLog + h.logged
           /\ serverUp' = ~Crashes(expressMajor, h)
    /\ outcome' = [outcome EXCEPT ![r] = o]
    /\ pc' = [pc EXCEPT ![r] = "done"]
    /\ UNCHANGED <<env, AGENTS_URL, expressMajor, request, reqBody>>

\* Request r is suspended in the /api/chat handler.
IsChat(r) == pc[r] = "await" /\ request[r].path = "/api/chat"

\* Request r is suspended in the /api/agents handler.
IsAgents(r) == pc[r] = "await" /\ request[r].path = "/api/agents"

\* await axios.post(...) is fulfilled: res.json(response.data)
ChatResolves(r) ==
    /\ IsChat(r)
    /\ \E o \in ChatOutcomes(calls[r][1]) :
        AxiosFulfilled(o) /\ Settles(r, ChatError, o)

\* await axios.post(...) is rejected: the catch block
ChatRejects(r) ==
    /\ IsChat(r)
    /\ \E o \in ChatOutcomes(calls[r][1]) :
        AxiosRejected(o) /\ Settles(r, ChatError, o)

\* await axios.get(...) is fulfilled: res.json(response.data)
AgentsResolves(r) ==
    /\ IsAgents(r)
    /\ \E o \in AgentsOutcomes :
        AxiosFulfilled(o) /\ Settles(r, AgentsError, o)

\* await axios.get(...) is rejected: the catch block
AgentsRejects(r) ==
    /\ IsAgents(r)
    /\ \E o \in AgentsOutcomes :
        AxiosRejected(o) /\ Settles(r, AgentsError, o)

Next ==
    \E r \in Reqs :
        \/ PostChat(r)
        \/ PostChatMalformed(r)
        \/ GetAgents(r)
        \/ GetRoot(r)
        \/ GetAsset(r)
        \/ UpstreamSilent(r)
        \/ ChatResolves(r)
        \/ ChatRejects(r)
        \/ AgentsResolves(r)
        \/ AgentsRejects(r)

Spec == Init /\ [][Next]_vars

----------------------------------------------------------------------------
\* Vocabulary of the properties

Done(r) == pc[r] = "done"

\* The route handler of a proxy route ran for r (it issued its axios call).
Proxied(r) == request[r].path \in {"/api/chat", "/api/agents"} /\ calls[r] # <<>>

ChatDone(r) == Done(r) /\ Proxied(r) /\ request[r].path = "/api/chat"

AgentsDone(r) == Done(r) /\ Proxied(r) /\ request[r].path = "/api/agents"

Answer(r) == res[r].sent[1]

ErrorAnswer(label) ==
    [status |-> 500, type |-> "application/json",
     text |-> << <<"error", label>> >>, file |-> ""]

OwnError(r) ==
    IF request[r].path = "/api/chat"
    THEN "Failed to communicate with agents service"
    ELSE "Failed to get agents list"

\* The caller gets the upstream's JSON value.
RelaysBody(r) ==
    /\ Len(res[r].sent) = 1
    /\ Answer(r).type = "application/json"
    /\ JSONparse(Answer(r).text) = JSONparse(outcome[r].text)

----------------------------------------------------------------------------
\* C1: a POST to /api/chat with a valid JSON body that succeeds upstream
\* (2xx status S, JSON body R) is answered with exactly body R and exactly
\* status S.
C1_ChatRelaysBodyAndStatus ==
    \A r \in Reqs :
        (ChatDone(r) /\ request[r].ctype = JsonType /\ AxiosFulfilled(outcome[r]))
            => /\ RelaysBody(r)
               /\ Answer(r).status = outcome[r].status

\* C2: every upstream failure (connection refused, non-2xx status, timeout)
\* is answered with status 500 and the route's fixed error body, whatever the
\* upstream's error text or payload was.
C2_FailuresAreMasked ==
    \A r \in Reqs :
        (Done(r) /\ Proxied(r) /\ AxiosRejected(outcome[r]))
            => res[r].sent = <<ErrorAnswer(OwnError(r))>>

C2_Witness ==
    \E r, q \in Reqs :
        /\ ChatDone(r) /\ outcome[r] = Reply(503, ErrorPayloadText)
        /\ res[r].sent = <<ErrorAnswer("Failed to communicate with agents service")>>
        /\ AgentsDone(q) /\ outcome[q].kind = "ETIMEDOUT"
        /\ res[q].sent = <<ErrorAnswer("Failed to get agents list")>>

\* C3: every pending /api/chat or /api/agents request can still be
\* completed, also when the upstream never answers: some step (a timeout)
\* ends the wait.
C3_PendingRequestCanComplete ==
    \A r \in Reqs :
        pc[r] = "await"
            => ENABLED (ChatResolves(r) \/ ChatRejects(r)
                        \/ AgentsResolves(r) \/ AgentsRejects(r))

\* C4: a GET /api/agents that succeeds upstream (2xx status S, JSON body R)
\* is answered with exactly body R and exactly status S; for the agents
\* list with status 200 the caller gets the identical body and status 200.
C4_AgentsRelaysBodyAndStatus ==
    \A r \in Reqs :
        (AgentsDone(r) /\ AxiosFulfilled(outcome[r]))
            => /\ RelaysBody(r)
               /\ Answer(r).status = outcome[r].status
               /\ (outcome[r] = Reply(200, AgentsReplyText)
                      => res[r].sent = <<[status |-> 200,
                                          type |-> "application/json",
                                          text |-> AgentsReplyText,
                                          file |-> ""]>>)

\* C5: with several /api/chat and /api/agents requests in flight, in any
\* order of completion, a caller is answered only when its own upstream call
\* settled, and with that call's result: the upstream's reply when it
\* succeeded (the caller's own correlation id when the upstream echoes), the
\* route's error when it failed.
C5_RequestsAreIsolated ==
    \A r \in Reqs :
        /\ ~Done(r) => res[r].sent = <<>>
        /\ (Done(r) /\ Proxied(r)) =>
              /\ Len(res[r].sent) = 1
              /\ AxiosFulfilled(outcome[r]) \/ AxiosRejected(outcome[r])
              /\ AxiosFulfilled(outcome[r]) =>
                    /\ RelaysBody(r)
                    /\ Answer(r).status # 500
              /\ AxiosRejected(outcome[r]) =>
                    Answer(r) = ErrorAnswer(OwnError(r))
              /\ (/\ AxiosFulfilled(outcome[r])
                  /\ request[r].ctype = JsonType
                  /\ outcome[r].text = calls[r][1].text) =>
                    JSONparse(Answer(r).text)["cid"]
                        = JSONparse(request[r].text)["cid"]

\* Two chat requests overlap; the later one completes first and gets the
\* echo of its own correlation id.
C5_Witness ==
    \E q, r \in Reqs :
        /\ q < r
        /\ pc[q] = "await" /\ request[q].path = "/api/chat"
        /\ ChatDone(r) /\ AxiosFulfilled(outcome[r])
        /\ request[q].ctype = JsonType /\ request[r].ctype = JsonType
        /\ outcome[r].text = calls[r][1].text
        /\ JSONparse(request[q].text)["cid"] # JSONparse(request[r].text)["cid"]
        /\ JSONparse(Answer(r).text)["cid"] = JSONparse(request[r].text)["cid"]

\* C6: after request failures the server is still running and accepts the
\* next request, and a request that arrives after a failure and succeeds
\* upstream gets the success response.
C6_FailuresAreNotFatal ==
    /\ serverUp
    /\ \A r \in Reqs :
        /\ (pc[r] = "idle" /\ \A q \in Reqs : q < r => pc[q] # "idle")
              => ENABLED GetAgents(r)
        /\ (Done(r) /\ Proxied(r) /\ request[r].afterError
               /\ AxiosFulfilled(outcome[r]))
              => /\ RelaysBody(r)
                 /\ Answer(r).status = 200

C6_Witness ==
    \E q, r \in Reqs :
        /\ q < r
        /\ Done(q) /\ Proxied(q) /\ AxiosRejected(outcome[q])
        /\ Done(r) /\ Proxied(r) /\ request[r].afterError
        /\ AxiosFulfilled(outcome[r])
        /\ Answer(r).status = 200

\* C7 as stated: for every POST to /api/chat the body sent upstream is the
\* JSON value the caller sent.
C7_EveryPostIsForwardedVerbatim ==
    \A r \in Reqs :
        (request[r].path = "/api/chat" /\ calls[r] # <<>>)
            => /\ calls[r][1].hasBody
               /\ JSONparse(calls[r][1].text) = JSONparse(request[r].text)

\* C7 amended: for every POST to /api/chat whose body express.json() parsed
\* (Content-Type application/json), the body sent upstream is the JSON value
\* the caller sent; every chat call goes to AGENTS_URL/chat, AGENTS_URL is
\* http://localhost:7777 when the environment leaves it unset, and no step
\* changes it.
C7_JsonPostIsForwardedVerbatim ==
    /\ [](\A r \in Reqs :
            (request[r].path = "/api/chat" /\ calls[r] # <<>>) =>
                /\ Len(calls[r]) = 1
                /\ calls[r][1].method = "POST"
                /\ calls[r][1].url = <<AGENTS_URL, "/chat">>
                /\ env = EnvUnset => AGENTS_URL = "http://localhost:7777"
                /\ env \notin {EnvUnset, ""} => AGENTS_URL = env
                /\ request[r].ctype = JsonType =>
                      /\ calls[r][1].hasBody
                      /\ JSONparse(calls[r][1].text) = JSONparse(request[r].text))
    /\ [][AGENTS_URL' = AGENTS_URL]_vars

C7_Witness ==
    \E r \in Reqs :
        /\ ChatDone(r)
        /\ env = EnvUnset
        /\ request[r].ctype = JsonType
        /\ request[r].text = << <<"cid", "c2">>, <<"tools", "search">> >>
        /\ calls[r][1].text = << <<"cid", "c2">>, <<"tools", "search">> >>

\* C8 as stated: GET / returns the root route's index.html with status 200
\* when that file exists and status 404 when it is missing, whatever the
\* static directory holds.
C8_RootRouteDecides ==
    \A r \in Reqs :
        (Done(r) /\ request[r].path = "/")
            => res[r].sent = IF request[r].srcIndex
                             THEN <<FileResponse(200, "src/index.html")>>
                             ELSE <<FileResponse(404, "")>>

\* C8 amended: GET / returns public/index.html with status 200 when the
\* static directory holds an index.html; otherwise the root route's
\* index.html with status 200 when that file exists and status 404 when it
\* is missing.
C8_StaticIndexComesFirst ==
    \A r \in Reqs :
        (Done(r) /\ request[r].path = "/")
            => res[r].sent =
                  IF request[r].publicHas
                  THEN <<FileResponse(200, "public/index.html")>>
                  ELSE IF request[r].srcIndex
                       THEN <<FileResponse(200, "src/index.html")>>
                       ELSE <<FileResponse(404, "")>>

C8_Witness ==
    \E q, r \in Reqs :
        /\ Done(q) /\ request[q].path = "/"
        /\ request[q].publicHas /\ ~request[q].srcIndex
        /\ Answer(q).status = 200
        /\ Done(r) /\ request[r].path = "/"
        /\ ~request[r].publicHas /\ request[r].srcIndex
        /\ Answer(r).file = "src/index.html"

\* C9: a request to /api/chat or /api/agents causes at most one upstream
\* call, exactly one still after an upstream failure (no retry); a request
\* for / or a static asset causes none.
C9_AtMostOneUpstreamCall ==
    \A r \in Reqs :
        /\ Len(calls[r]) <= 1
        /\ request[r].path \in {"/", AssetPath} => calls[r] = <<>>
        /\ (Done(r) /\ Proxied(r)) => Len(calls[r]) = 1

C9_Witness ==
    \E q, r \in Reqs :
        /\ Done(q) /\ Proxied(q) /\ AxiosRejected(outcome[q])
        /\ Len(calls[q]) = 1
        /\ Done(r) /\ request[r].path = "/" /\ calls[r] = <<>>

\* C10: a request handled by /api/chat or /api/agents gets exactly one
\* response: nothing while the handler waits, then one res.json call that
\* writes one response, the 500 error exactly when the upstream call failed.
C10_ExactlyOneResponse ==
    \A r \in Reqs :
        Proxied(r) =>
            /\ pc[r] = "await" => (res[r].sent = <<>> /\ res[r].jsonCalls = 0)
            /\ Done(r) =>
                  /\ Len(res[r].sent) = 1
                  /\ res[r].jsonCalls = 1
                  /\ Answer(r).status = 500 <=> AxiosRejected(outcome[r])

C10_Witness ==
    \E q, r \in Reqs :
        /\ Done(q) /\ Proxied(q) /\ AxiosFulfilled(outcome[q])
        /\ Len(res[q].sent) = 1 /\ Answer(q).status = 200
        /\ Done(r) /\ Proxied(r) /\ AxiosRejected(outcome[r])
        /\ Len(res[r].sent) = 1 /\ Answer(r).status = 500

====
